---- MODULE Spec2Model ----
(***************************************************************************)
(* TaskTracker (src/main.py): a task list kept in memory by the window,    *)
(* persisted to tasks.json, ranked by a language model whose free-text     *)
(* answer is scanned for its first bracketed array.                        *)
(*                                                                         *)
(* Task ids are str(uuid.uuid4()); the model writes the n-th id created    *)
(* as the natural number n.  A value of a JSON array is a record           *)
(* [type, value] carrying its Python type, so that the string id 1 and     *)
(* the number 1 are different values, as they are for Python.              *)
(***************************************************************************)
EXTENDS Naturals, Integers, Sequences, FiniteSets, TLC

VARIABLES
    tasks,      \* TaskTracker.tasks: the in-memory list of task dicts
    file,       \* the state of tasks.json on disk
    task_list,  \* TaskTracker.task_list: the rows of the QListWidget
    created,    \* number of uuids drawn so far
    loaded,     \* the value load_tasks() returned to __init__
    last,       \* the last handler run: its inputs and how it ended
    lastPass    \* the last rank_tasks call that got a model response

vars == <<tasks, file, task_list, created, loaded, last, lastPass>>

----------------------------------------------------------------------------
(* Bounds *)

\* uuids drawn in one run of the application
MaxCreated == 3
\* longest array the model returns to a ranking prompt of a handler
MaxRanked == 2
\* longest array the model returns to an extraction prompt
MaxExtract == 2
\* longest task list found in tasks.json at start-up
MaxFileTasks == 2
\* a ranking pass on its own: longest task list, longest array returned
MaxListed == 3
MaxPassRanked == 3

Texts == {"buy milk"}
Times == {1}
Sources == {"manual", "ai", "media"}

----------------------------------------------------------------------------
(* Python and JSON values *)

PyStr(v) == [type |-> "str", value |-> v]
PyInt(v) == [type |-> "int", value |-> v]
\* a JSON object: a Python dict, which is unhashable
PyDict == [type |-> "dict", value |-> 0]

\* a model response, as far as re.search(r'\[.*?\]') and json.loads see it
NoArray == [bracket |-> "none", items |-> <<>>]
BadArray == [bracket |-> "malformed", items |-> <<>>]
JsonArray(items) == [bracket |-> "json", items |-> items]

\* re.search(r'\[.*?\]', response, re.DOTALL): is there a match
re_search(response) == response.bracket # "none"

\* json.loads as a parser that yields an empty array for what it cannot read
json_loads_lenient(response) == [raised |-> FALSE, value |-> response.items]

\* json.loads(match.group(0)): raises unless the matched text is JSON
json_loads(response) ==
    IF response.bracket = "json"
    THEN [raised |-> FALSE, value |-> response.items]
    ELSE [raised |-> TRUE, value |-> <<>>]

SeqsUpTo(S, n) == UNION {[1..k -> S] : k \in 0..n}

----------------------------------------------------------------------------
(* Storage *)

PyList(items) == [type |-> "list", form |-> "tasks", items |-> items]
\* JSON values that are not a list of task records
PyOther(t) == [type |-> t, form |-> "other", items |-> <<>>]

NoFile == [exists |-> FALSE, syntax |-> "none", value |-> PyOther("NoneType")]
\* a file json.load cannot parse: empty, or not JSON
BadFile(s) == [exists |-> TRUE, syntax |-> s, value |-> PyOther("NoneType")]
JsonFile(v) == [exists |-> TRUE, syntax |-> "json", value |-> v]

load_tasks(f) ==
    IF f.exists
    THEN IF f.syntax = "json" THEN f.value ELSE PyList(<<>>)
    ELSE PyList(<<>>)

save_tasks(ts) == JsonFile(PyList(ts))

----------------------------------------------------------------------------
(* Extraction *)

\* extraction that falls back on the text itself when no array is found
extract_tasks_or_text(response) ==
    IF response.bracket = "json" THEN response.items ELSE <<"buy milk">>

extract_tasks_from_text(response) ==
    IF ~re_search(response)
    THEN <<>>
    ELSE LET r == json_loads(response)
         IN IF r.raised THEN <<>> ELSE r.value

----------------------------------------------------------------------------
(* Ranking *)

NewTask(id, text, now, source) ==
    [id |-> id, text |-> text, completed |-> FALSE, timestamp |-> now,
     priority_score |-> 0, source |-> source]

RECURSIVE AppendTasks(_, _, _, _, _)
\* the loop of add_tasks: one task per text, each with a fresh uuid
AppendTasks(ts, new_texts, n, now, source) ==
    IF new_texts = <<>>
    THEN ts
    ELSE AppendTasks(Append(ts, NewTask(n + 1, Head(new_texts), now, source)),
                     Tail(new_texts), n + 1, now, source)

Hashable(v) == v.type # "dict"

\* a dict that keeps the first value stored under a key
DictPutFirst(d, k, v) ==
    [x \in (DOMAIN d) \cup {k} |-> IF x \in DOMAIN d THEN d[x] ELSE v]

DictPut(d, k, v) == [x \in (DOMAIN d) \cup {k} |-> IF x = k THEN v ELSE d[x]]

RECURSIVE DictComp(_, _, _)
\* {task_id: len(ranked_ids) - i for i, task_id in enumerate(ranked_ids)}:
\* the pairs are stored in order, a later pair replacing an earlier one
DictComp(ranked_ids, i, d) ==
    IF i >= Len(ranked_ids)
    THEN d
    ELSE DictComp(ranked_ids, i + 1,
                  DictPut(d, ranked_ids[i + 1], Len(ranked_ids) - i))

id_to_score(ranked_ids) == DictComp(ranked_ids, 0, <<>>)

\* scoring that leaves a task the model did not list with its old score
AssignScoresKeep(ts, d) ==
    [j \in DOMAIN ts |->
        IF PyStr(ts[j].id) \in DOMAIN d
        THEN [ts[j] EXCEPT !.priority_score = d[PyStr(ts[j].id)]]
        ELSE ts[j]]

\* the for loop over tasks: every task gets its score or 0
AssignScores(ts, d) ==
    [j \in DOMAIN ts |->
        IF PyStr(ts[j].id) \in DOMAIN d
        THEN [ts[j] EXCEPT !.priority_score = d[PyStr(ts[j].id)]]
        ELSE [ts[j] EXCEPT !.priority_score = 0]]

RECURSIVE InsertDescUnstable(_, _)
\* put t in front of the tasks that have its score: a sort that is not stable
InsertDescUnstable(sorted, t) ==
    IF sorted = <<>>
    THEN <<t>>
    ELSE IF Head(sorted).priority_score > t.priority_score
         THEN <<Head(sorted)>> \o InsertDescUnstable(Tail(sorted), t)
         ELSE <<t>> \o sorted

RECURSIVE InsertAsc(_, _)
\* the sort without reverse=True
InsertAsc(sorted, t) ==
    IF sorted = <<>>
    THEN <<t>>
    ELSE IF Head(sorted).priority_score <= t.priority_score
         THEN <<Head(sorted)>> \o InsertAsc(Tail(sorted), t)
         ELSE <<t>> \o sorted

RECURSIVE InsertDesc(_, _)
\* put t behind every task whose score is not smaller
InsertDesc(sorted, t) ==
    IF sorted = <<>>
    THEN <<t>>
    ELSE IF Head(sorted).priority_score >= t.priority_score
         THEN <<Head(sorted)>> \o InsertDesc(Tail(sorted), t)
         ELSE <<t>> \o sorted

RECURSIVE SortDesc(_, _)
\* tasks.sort(key=lambda x: x["priority_score"], reverse=True): stable
SortDesc(ts, acc) ==
    IF ts = <<>> THEN acc ELSE SortDesc(Tail(ts), InsertDesc(acc, Head(ts)))

incomplete_tasks(ts) == SelectSeq(ts, LAMBDA t : ~t.completed)

\* rank_tasks(tasks) when the model answers `response`:
\*   tasks: the list afterwards; prompted: a prompt was sent;
\*   raised: the call ended in an exception
rank_tasks(ts, response) ==
    IF incomplete_tasks(ts) = <<>>
    THEN [tasks |-> ts, prompted |-> FALSE, raised |-> FALSE]
    ELSE IF ~re_search(response)
    THEN [tasks |-> ts, prompted |-> TRUE, raised |-> FALSE]
    ELSE LET r == json_loads(response)
         IN IF r.raised
            THEN [tasks |-> ts, prompted |-> TRUE, raised |-> FALSE]
            ELSE IF \E i \in DOMAIN r.value : ~Hashable(r.value[i])
            THEN \* TypeError: unhashable type: 'dict'
                 [tasks |-> ts, prompted |-> TRUE, raised |-> TRUE]
            ELSE [tasks |-> SortDesc(AssignScores(ts, id_to_score(r.value)), <<>>),
                  prompted |-> TRUE, raised |-> FALSE]

----------------------------------------------------------------------------
(* The window *)

\* refresh_list: one row per task, "<text>  (score: <priority_score>)"
refresh_list(ts) ==
    [j \in DOMAIN ts |-> [text |-> ts[j].text, score |-> ts[j].priority_score]]

\* pop() without its argument: the last element goes
pop_last(s, k) == SubSeq(s, 1, Len(s) - 1)

\* list.pop(k) and QListWidget.takeItem(k), for a 0-based k
pop(s, k) == SubSeq(s, 1, k) \o SubSeq(s, k + 2, Len(s))

NoPass == [ran |-> FALSE, before |-> <<>>, response |-> NoArray, raised |-> FALSE]

PassOf(before, response, p) ==
    [ran |-> TRUE, before |-> before, response |-> response, raised |-> p.raised]

\* what a handler leaves behind besides the window's own fields:
\*   outcome: "ok", "returned" (an early return), "warning" or "critical"
\*            (a message box), "raised" (an exception left the handler);
\*   prompts: ranking prompts sent; row: currentRow();
\*   asked/extraction: the answer to the extraction prompt, if one was sent
\* After "raised" the window keeps what the handler had done so far; whether
\* Qt then ends the process or goes on, every later step is one of Next.
Ended(op, outcome, prompts, row, asked, extraction) ==
    [op |-> op, outcome |-> outcome, prompts |-> prompts, row |-> row,
     asked |-> asked, extraction |-> extraction]

\* the values the model may put in the array it returns to a ranking prompt:
\* ids of the tasks listed, an id of no task, a number, an object
RankValues(ts) ==
    {PyStr(ts[j].id) : j \in DOMAIN ts} \cup {PyStr(0), PyInt(1), PyDict}

RankResponsesUpTo(ts, n) ==
    {NoArray, BadArray} \cup {JsonArray(s) : s \in SeqsUpTo(RankValues(ts), n)}

RankResponses(ts) == RankResponsesUpTo(ts, MaxRanked)

ExtractResponses ==
    {NoArray, BadArray} \cup {JsonArray(s) : s \in SeqsUpTo(Texts, MaxExtract)}

\* every way a ranking pass over ts can end, over all model responses
RankOutcomes(ts) == {rank_tasks(ts, r) : r \in RankResponses(ts)}

Init ==
    /\ file = NoFile
    /\ loaded = load_tasks(file)
    /\ tasks = loaded.items
    /\ task_list = refresh_list(tasks)
    /\ created = 0
    /\ last = Ended("__init__", "ok", 0, -1, FALSE, NoArray)
    /\ lastPass = NoPass

\* a handler that returns before it touches the list
Returns(op, outcome, asked, e) ==
    /\ last' = Ended(op, outcome, 0, -1, asked, e)
    /\ UNCHANGED <<tasks, file, task_list, created, loaded, lastPass>>

\* add_manual with an input field that is empty after strip()
add_manual_empty == Returns("add_manual", "returned", FALSE, NoArray)

add_manual ==
    \E text \in Texts, now \in Times :
      /\ created + 1 <= MaxCreated
      /\ created' = created + 1
      /\ UNCHANGED <<loaded, lastPass>>
      /\ \E p1 \in RankOutcomes(AppendTasks(tasks, <<text>>, created, now, "manual")) :
           IF p1.raised
           THEN \* add_tasks raised: save_tasks and what follows do not run
                /\ tasks' = p1.tasks
                /\ file' = file
                /\ task_list' = task_list
                /\ last' = Ended("add_manual", "raised", 1, -1, FALSE, NoArray)
           ELSE /\ file' = save_tasks(p1.tasks)
                /\ \E p2 \in RankOutcomes(p1.tasks) :
                     /\ tasks' = p2.tasks
                     /\ IF p2.raised
                        THEN /\ task_list' = task_list
                             /\ last' = Ended("add_manual", "raised", 2, -1, FALSE, NoArray)
                        ELSE /\ task_list' = refresh_list(p2.tasks)
                             /\ last' = Ended("add_manual", "ok", 2, -1, FALSE, NoArray)

extract_text_ai_empty == Returns("extract_text_ai", "returned", FALSE, NoArray)

extract_text_ai ==
    \E text \in Texts, now \in Times, e \in ExtractResponses :
      LET extracted == extract_tasks_from_text(e)
      IN IF extracted = <<>>
         THEN Returns("extract_text_ai", "warning", TRUE, e)
         ELSE /\ created + Len(extracted) <= MaxCreated
              /\ created' = created + Len(extracted)
              /\ UNCHANGED <<loaded, lastPass>>
              /\ \E p1 \in RankOutcomes(AppendTasks(tasks, extracted, created, now, "ai")) :
                   IF p1.raised
                   THEN /\ tasks' = p1.tasks
                        /\ file' = file
                        /\ task_list' = task_list
                        /\ last' = Ended("extract_text_ai", "raised", 1, -1, TRUE, e)
                   ELSE \E p2 \in RankOutcomes(p1.tasks) :
                          /\ tasks' = p2.tasks
                          /\ IF p2.raised
                             THEN /\ file' = file
                                  /\ task_list' = task_list
                                  /\ last' = Ended("extract_text_ai", "raised", 2, -1, TRUE, e)
                             ELSE /\ file' = save_tasks(p2.tasks)
                                  /\ task_list' = refresh_list(p2.tasks)
                                  /\ last' = Ended("extract_text_ai", "ok", 2, -1, TRUE, e)

\* upload_media before it has a transcript: the dialog is cancelled
\* ("returned"), ffmpeg fails on the .mp4 (RuntimeError, caught: "critical"),
\* or the transcript is empty ("warning")
upload_media_no_transcript ==
    \E outcome \in {"returned", "critical", "warning"} :
      Returns("upload_media", outcome, FALSE, NoArray)

upload_media ==
    \E now \in Times, e \in ExtractResponses :
      LET extracted == extract_tasks_from_text(e)
      IN IF extracted = <<>>
         THEN Returns("upload_media", "warning", TRUE, e)
         ELSE /\ created + Len(extracted) <= MaxCreated
              /\ created' = created + Len(extracted)
              /\ UNCHANGED <<loaded, lastPass>>
              /\ \E p1 \in RankOutcomes(AppendTasks(tasks, extracted, created, now, "media")) :
                   /\ tasks' = p1.tasks
                   /\ IF p1.raised
                      THEN \* caught by except Exception: a critical box
                           /\ file' = file
                           /\ task_list' = task_list
                           /\ last' = Ended("upload_media", "critical", 1, -1, TRUE, e)
                      ELSE /\ file' = save_tasks(p1.tasks)
                           /\ task_list' = refresh_list(p1.tasks)
                           /\ last' = Ended("upload_media", "ok", 1, -1, TRUE, e)

complete_selected ==
    \E selected \in -1 .. (Len(task_list) - 1) :
      IF selected >= 0
      THEN IF selected < Len(tasks)
           THEN /\ tasks' = pop(tasks, selected)
                /\ file' = save_tasks(tasks')
                /\ task_list' = pop(task_list, selected)
                /\ last' = Ended("complete_selected", "ok", 0, selected, FALSE, NoArray)
                /\ UNCHANGED <<created, loaded, lastPass>>
           ELSE \* IndexError: pop index out of range
                /\ last' = Ended("complete_selected", "raised", 0, selected, FALSE, NoArray)
                /\ UNCHANGED <<tasks, file, task_list, created, loaded, lastPass>>
      ELSE /\ last' = Ended("complete_selected", "returned", 0, selected, FALSE, NoArray)
           /\ UNCHANGED <<tasks, file, task_list, created, loaded, lastPass>>

Next ==
    \/ add_manual_empty
    \/ add_manual
    \/ extract_text_ai_empty
    \/ extract_text_ai
    \/ upload_media_no_transcript
    \/ upload_media
    \/ complete_selected

Spec == Init /\ [][Next]_vars

----------------------------------------------------------------------------
(* One ranking pass on its own.  The list handed to rank_tasks is one the  *)
(* handlers can hand it: unique ids, not completed, ordered by             *)
(* non-increasing score with no positive score held twice (C7, C10), the   *)
(* tasks just appended carrying 0.                                         *)

ListedTasks ==
    {[NewTask(id, text, now, "manual") EXCEPT !.priority_score = score] :
        id \in 1..MaxListed, text \in Texts, now \in Times, score \in 0..MaxPassRanked}

RankInputs ==
    {ts \in SeqsUpTo(ListedTasks, MaxListed) :
        /\ ts # <<>>
        /\ \A i, j \in DOMAIN ts :
             i < j => /\ ts[i].id # ts[j].id
                      /\ ts[i].priority_score >= ts[j].priority_score
                      /\ ts[i].priority_score = ts[j].priority_score
                           => ts[i].priority_score = 0}

InitRank ==
    /\ tasks \in RankInputs
    /\ file = save_tasks(tasks)
    /\ loaded = PyList(<<>>)
    /\ task_list = refresh_list(tasks)
    /\ created = MaxListed
    /\ last = Ended("__init__", "ok", 0, -1, FALSE, NoArray)
    /\ lastPass = NoPass

\* rank_tasks(self.tasks), once, with the model's answer as the input
rank_pass ==
    /\ ~lastPass.ran
    /\ \E response \in RankResponsesUpTo(tasks, MaxPassRanked) :
         LET p == rank_tasks(tasks, response)
         IN /\ p.prompted
            /\ tasks' = p.tasks
            /\ lastPass' = PassOf(tasks, response, p)
    /\ UNCHANGED <<file, task_list, created, loaded, last>>

NextRank == rank_pass

SpecRank == InitRank /\ [][NextRank]_vars

----------------------------------------------------------------------------
(* Start-up: what load_tasks makes of tasks.json *)

NotLoaded == [type |-> "unset", form |-> "other", items |-> <<>>]

\* task records as a file may hold them, written by anyone
FileTasks ==
    {[NewTask(id, text, now, "manual") EXCEPT !.priority_score = score,
                                              !.completed = done] :
        id \in 1..MaxFileTasks, text \in Texts, now \in Times,
        score \in 0..MaxFileTasks, done \in BOOLEAN}

FileStates ==
    {NoFile, BadFile("empty"), BadFile("invalid")}
    \cup {JsonFile(PyOther(t)) : t \in {"dict", "int", "str", "NoneType", "list"}}
    \cup {JsonFile(PyList(ts)) : ts \in SeqsUpTo(FileTasks, MaxFileTasks)}

InitLoad ==
    /\ file \in FileStates
    /\ loaded = NotLoaded
    /\ tasks = <<>>
    /\ task_list = <<>>
    /\ created = 0
    /\ last = Ended("__init__", "returned", 0, -1, FALSE, NoArray)
    /\ lastPass = NoPass

\* self.tasks = load_tasks() in TaskTracker.__init__
load ==
    /\ loaded = NotLoaded
    /\ loaded' = load_tasks(file)
    /\ tasks' = loaded'.items
    /\ UNCHANGED <<file, task_list, created, last, lastPass>>

NextLoad == load

SpecLoad == InitLoad /\ [][NextLoad]_vars

----------------------------------------------------------------------------
(* Properties *)

Score(ts, j) == ts[j].priority_score

\* the 1-based positions of the string id in a ranked array
Occurrences(ranked, id) == {i \in DOMAIN ranked : ranked[i] = PyStr(id)}

MaxOf(S) == CHOOSE m \in S : \A x \in S : x <= m

\* the 1-based position of the task with this id
PosOf(ts, id) == CHOOSE j \in DOMAIN ts : ts[j].id = id

Ids(ts) == {ts[j].id : j \in DOMAIN ts}

NonIncreasing(ts) == \A i, j \in DOMAIN ts : i < j => Score(ts, i) >= Score(ts, j)

Parsed(pass) == pass.ran /\ pass.response.bracket = "json"

\* C1 as stated, for the passes that run to their end: after a ranking pass
\* whose response parses to a list of length L >= 1, a task whose id stands
\* at 0-based position i has priority_score L - i, for every such i, and a
\* task whose id is not in the list has priority_score 0.
C1_ScoreAtEveryPosition ==
    (Parsed(lastPass) /\ ~lastPass.raised /\ Len(lastPass.response.items) >= 1) =>
        LET ranked == lastPass.response.items
            L == Len(ranked)
        IN \A j \in DOMAIN tasks :
             /\ \A i \in Occurrences(ranked, tasks[j].id) : Score(tasks, j) = L - (i - 1)
             /\ Occurrences(ranked, tasks[j].id) = {} => Score(tasks, j) = 0

\* C1 amended: after a ranking pass whose response parses to a list of
\* length L >= 1, a task whose id occurs in the list has priority_score
\* L - i for the LAST 0-based position i of its id, and a task whose id is
\* not in the list has 0; when the list holds a JSON object the pass raises
\* instead and every task keeps the score and the place it had.
C1_ScoreAtLastPosition ==
    (Parsed(lastPass) /\ Len(lastPass.response.items) >= 1) =>
        LET ranked == lastPass.response.items
            L == Len(ranked)
        IN IF \E i \in DOMAIN ranked : ranked[i].type = "dict"
           THEN lastPass.raised /\ tasks = lastPass.before
           ELSE /\ ~lastPass.raised
                /\ \A j \in DOMAIN tasks :
                     LET occ == Occurrences(ranked, tasks[j].id)
                     IN Score(tasks, j) = IF occ = {} THEN 0 ELSE L - (MaxOf(occ) - 1)

\* a pass over two tasks answered with an array that repeats the id of one,
\* names an id of no task and omits the other task
C1_Witness ==
    /\ Parsed(lastPass) /\ ~lastPass.raised
    /\ Len(tasks) = 2
    /\ \E j \in DOMAIN tasks :
         /\ Cardinality(Occurrences(lastPass.response.items, tasks[j].id)) = 2
         /\ Score(tasks, j) = 1
    /\ \E j \in DOMAIN tasks : Occurrences(lastPass.response.items, tasks[j].id) = {}
    /\ \E i \in DOMAIN lastPass.response.items : lastPass.response.items[i] = PyStr(0)

\* C2: after a ranking pass with a parsed array the stored sequence is a
\* permutation of the sequence before the pass (the same tasks, only their
\* scores differ), ordered by non-increasing priority_score, and two tasks
\* with equal priority_score keep the relative order they had before.
C2_StableDescendingPermutation ==
    Parsed(lastPass) =>
        LET before == lastPass.before
        IN /\ Len(tasks) = Len(before)
           /\ Ids(tasks) = Ids(before)
           /\ \A j \in DOMAIN tasks :
                [tasks[j] EXCEPT !.priority_score = 0]
                    = [before[PosOf(before, tasks[j].id)] EXCEPT !.priority_score = 0]
           /\ NonIncreasing(tasks)
           /\ \A i, j \in DOMAIN tasks :
                (i < j /\ Score(tasks, i) = Score(tasks, j))
                    => PosOf(before, tasks[i].id) < PosOf(before, tasks[j].id)

\* a pass over three tasks that moved the last one to the front and left
\* the other two tied at 0, the first of them having had a score before
C2_Witness ==
    /\ Parsed(lastPass) /\ ~lastPass.raised
    /\ Len(tasks) = 3
    /\ Score(lastPass.before, 1) > 0
    /\ tasks[1].id = lastPass.before[3].id
    /\ Score(tasks, 1) > 0 /\ Score(tasks, 2) = 0 /\ Score(tasks, 3) = 0
    /\ tasks[2].id = lastPass.before[1].id

\* C3: when the response holds no bracketed array, or its first bracketed
\* array does not parse, rank_tasks leaves the stored sequence as it was:
\* the same tasks, the same order, the same scores.
C3_FailedPassChangesNothing ==
    (lastPass.ran /\ lastPass.response.bracket \in {"none", "malformed"}) =>
        tasks = lastPass.before /\ ~lastPass.raised

\* an unparseable array met a list that holds a ranked task
C3_Witness ==
    /\ lastPass.ran
    /\ lastPass.response = BadArray
    /\ Len(tasks) = 2
    /\ Score(tasks, 1) > 0

\* C4: after add_manual, extract_text_ai, upload_media or complete_selected
\* has run to its end, tasks.json holds exactly the in-memory list.
C4_FileHoldsMemory ==
    (last.op \in {"add_manual", "extract_text_ai", "upload_media", "complete_selected"}
        /\ last.outcome = "ok")
    => file = save_tasks(tasks)

\* C5: complete_selected with row k >= 0 removes the task at stored position
\* k, shortens the list by one and leaves the other tasks and their order
\* alone; with no row selected nothing changes.
C5_RemovesRowK ==
    [][last'.op = "complete_selected" =>
        LET k == last'.row
        IN IF k >= 0
           THEN /\ Len(tasks') = Len(tasks) - 1
                /\ \A i \in DOMAIN tasks' :
                     tasks'[i] = IF i <= k THEN tasks[i] ELSE tasks[i + 1]
           ELSE tasks' = tasks /\ file' = file /\ task_list' = task_list]_vars

\* the middle one of three tasks was removed
C5_Witness ==
    /\ last.op = "complete_selected"
    /\ last.row = 1
    /\ Len(tasks) = 2
    /\ tasks[1].id # tasks[2].id

\* C6: whatever tasks.json is (missing, empty, unparseable, or holding
\* something that is not a list of task records), load_tasks returns an
\* empty list, and what it returns is always a list of task records.
C6_LoadYieldsTaskList ==
    loaded # NotLoaded =>
        /\ loaded.type = "list" /\ loaded.form = "tasks"
        /\ ~(file.exists /\ file.syntax = "json" /\ file.value.form = "tasks")
             => loaded = PyList(<<>>)

\* C7: from an empty store, the stored sequence is always ordered by
\* non-increasing priority_score.
C7_StoredDescending == NonIncreasing(tasks)

\* three tasks, the first two ranked, the third one not
C7_Witness ==
    /\ Len(tasks) = 3
    /\ Score(tasks, 1) = 2 /\ Score(tasks, 2) = 1 /\ Score(tasks, 3) = 0
    /\ tasks[1].id > tasks[2].id

NothingExtracted(e) == e.bracket \in {"none", "malformed"} \/ e = JsonArray(<<>>)

\* C8: when the extraction response has no array, an array that does not
\* parse or an empty array, extract_tasks_from_text returns the empty list
\* and extract_text_ai and upload_media end with a warning only: the list,
\* the file and the rows are as before and no ranking prompt was sent.
C8_NothingExtractedChangesNothing ==
    [][(last'.op \in {"extract_text_ai", "upload_media"} /\ last'.asked
            /\ NothingExtracted(last'.extraction)) =>
        /\ extract_tasks_from_text(last'.extraction) = <<>>
        /\ last'.outcome = "warning"
        /\ last'.prompts = 0
        /\ tasks' = tasks /\ file' = file /\ task_list' = task_list
        /\ created' = created]_vars

\* upload_media got an array that does not parse while two tasks were stored
C8_Witness ==
    /\ last.op = "upload_media" /\ last.asked
    /\ last.extraction = BadArray
    /\ last.outcome = "warning"
    /\ Len(tasks) = 2

\* C9: whatever the model answers to a ranking prompt, rank_tasks returns
\* normally, so a handler that sent a ranking prompt goes on to save the
\* list and refresh the rows.
C9_RankingNeverRaises ==
    last.prompts > 0 => (last.outcome = "ok" /\ task_list = refresh_list(tasks))

\* C10: from an empty store, no two stored tasks share a positive
\* priority_score.
C10_PositiveScoresDistinct ==
    \A i, j \in DOMAIN tasks :
        (i # j /\ Score(tasks, i) = Score(tasks, j)) => Score(tasks, i) = 0

\* upload_media left two ranked tasks and an unranked one
C10_Witness ==
    /\ Len(tasks) = 3
    /\ Score(tasks, 1) > Score(tasks, 2) /\ Score(tasks, 2) > 0
    /\ Score(tasks, 3) = 0
    /\ last.op = "upload_media"

====
